---------------------------- MODULE Spec2Model ----------------------------
(***************************************************************************)
(* Model of linux-stats (src/lib.rs): the three procfs decoders stat(),    *)
(* meminfo() and tcp()/udp() with the helpers they are built from.         *)
(*                                                                         *)
(* Text is modelled as a sequence of one-character strings, so that        *)
(* str::contains, str::lines, split_whitespace, split(':'), parse and      *)
(* from_hex are computed character by character as the library does.       *)
(* A panic (a failed unwrap or an index out of range) unwinds the call:    *)
(* the model records it as pc = "panicked" with no return value.           *)
(***************************************************************************)
EXTENDS Integers, Sequences, FiniteSets, TLC

VARIABLES
    pc,        \* position of the running call: idle, a decoder loop, returned, panicked
    op,        \* the public function called: stat, meminfo, tcp, udp
    lines,     \* the lines of the acquired text (str::lines)
    line_num,  \* index of the next line to process
    stat,      \* the Stat record being filled by stat()
    meminfo,   \* the MemInfo record being filled by meminfo()
    sockets,   \* the Socket records collected so far by net()
    ret,       \* the value returned to the caller
    io         \* how acquiring the text went: the command's or the file's outcome

vars == <<pc, op, lines, line_num, stat, meminfo, sockets, ret, io>>

---------------------------------------------------------------------------
(* Bounds of the model. *)

\* most lines of a /proc/meminfo text built from MemLineSet
MaxMemLines == 2
\* most lines of a /proc/stat text built from StatLineSet
MaxStatLines == 3
\* most data rows of a socket table built from TableRowSet
MaxNetRows == 3

---------------------------------------------------------------------------
(* Option and Result values. *)

Some(v) == [some |-> TRUE, v |-> v]
None == [some |-> FALSE]
Ok(v) == [ok |-> TRUE, v |-> v]
Err == [ok |-> FALSE]

---------------------------------------------------------------------------
(* Characters and the std string operations the decoders use. *)

NL == "\n"
CR == "\r"
TAB == "\t"
SP == " "

\* char::is_whitespace, on the characters that occur here
IsWhitespace(c) == c \in {SP, TAB, NL, CR}

DecDigits == <<"0", "1", "2", "3", "4", "5", "6", "7", "8", "9">>
IsDecDigit(c) == \E i \in 1..10 : DecDigits[i] = c
DecVal(c) == (CHOOSE i \in 1..10 : DecDigits[i] = c) - 1

\* str::contains(pat): pat occurs somewhere in s
Contains(s, pat) ==
    \E i \in 1..(Len(s) - Len(pat) + 1) : SubSeq(s, i, i + Len(pat) - 1) = pat

\* the elements of a finite set of numbers in increasing order
RECURSIVE Sorted(_)
Sorted(I) ==
    IF I = {} THEN <<>>
    ELSE LET m == CHOOSE i \in I : \A j \in I : i <= j
         IN  <<m>> \o Sorted(I \ {m})

\* str::split(sep): the pieces between separators, empty pieces included
split(s, sep) ==
    LET at == Sorted({i \in 1..Len(s) : s[i] = sep})
        from(k) == IF k = 1 THEN 1 ELSE at[k - 1] + 1
        to(k) == IF k > Len(at) THEN Len(s) ELSE at[k] - 1
    IN  [k \in 1..(Len(at) + 1) |-> SubSeq(s, from(k), to(k))]

\* str::lines: split at "\n", a final empty piece is no line, a trailing
\* "\r" of a line is removed
Lines(s) ==
    LET pieces == split(s, NL)
        n == IF pieces[Len(pieces)] = <<>> THEN Len(pieces) - 1 ELSE Len(pieces)
        strip(l) == IF Len(l) > 0 /\ l[Len(l)] = CR THEN SubSeq(l, 1, Len(l) - 1) ELSE l
    IN  [k \in 1..n |-> strip(pieces[k])]

\* str::split_whitespace: the maximal runs of non-whitespace characters
split_whitespace(s) ==
    LET ws(i) == i < 1 \/ i > Len(s) \/ IsWhitespace(s[i])
        first == Sorted({i \in 1..Len(s) : ~ws(i) /\ ws(i - 1)})
        last == Sorted({i \in 1..Len(s) : ~ws(i) /\ ws(i + 1)})
    IN  [k \in 1..Len(first) |-> SubSeq(s, first[k], last[k])]

\* Iterator::next on the chunks of a line: the k-th chunk, if there is one
Chunk(chunks, k) == IF k <= Len(chunks) THEN Some(chunks[k]) ELSE None

---------------------------------------------------------------------------
(* str::parse::<uN>(): decimal digits only (one leading "+" is allowed),   *)
(* at least one digit, and the value must fit the type.                    *)

U8_MAX == <<"2", "5", "5">>
U32_MAX == (* 4294967295 *) <<"4", "2", "9", "4", "9", "6", "7", "2", "9", "5">>
U64_MAX == (* 18446744073709551615 *)
        <<"1", "8", "4", "4", "6", "7", "4", "4", "0", "7", "3", "7", "0", "9",
          "5", "5", "1", "6", "1", "5">>

RECURSIVE StripZeros(_)
StripZeros(ds) ==
    IF Len(ds) > 1 /\ ds[1] = "0" THEN StripZeros(Tail(ds)) ELSE ds

\* a <= b for digit strings of equal length
RECURSIVE LexLeq(_, _)
LexLeq(a, b) ==
    IF a = <<>> THEN TRUE
    ELSE IF DecVal(a[1]) < DecVal(b[1]) THEN TRUE
    ELSE IF DecVal(a[1]) > DecVal(b[1]) THEN FALSE
    ELSE LexLeq(Tail(a), Tail(b))

\* the number a digit string denotes is at most the one max denotes
FitsIn(ds, max) ==
    LET a == StripZeros(ds)
    IN  Len(a) < Len(max) \/ (Len(a) = Len(max) /\ LexLeq(a, max))

RECURSIVE DecValue(_, _)
DecValue(ds, acc) ==
    IF ds = <<>> THEN acc ELSE DecValue(Tail(ds), 10 * acc + DecVal(ds[1]))

parse_uint(tok, max) ==
    LET ds == IF Len(tok) > 0 /\ tok[1] = "+" THEN Tail(tok) ELSE tok
    IN  IF ds = <<>> \/ (\E i \in 1..Len(ds) : ~IsDecDigit(ds[i])) THEN Err
        ELSE IF ~FitsIn(ds, max) THEN Err
        ELSE Ok(DecValue(StripZeros(ds), 0))

parse_u8(tok) == parse_uint(tok, U8_MAX)
parse_u32(tok) == parse_uint(tok, U32_MAX)
parse_u64(tok) == parse_uint(tok, U64_MAX)

---------------------------------------------------------------------------
(* Outcome of a helper that may panic (a failed unwrap, an index out of    *)
(* range): either it finishes with a value or the call unwinds.            *)

Done(v) == [panic |-> FALSE, v |-> v]
Panic == [panic |-> TRUE]

---------------------------------------------------------------------------
(* to_vecu64 and to_u64 (lib.rs 518-537). *)

\* parse every chunk after the first; a chunk that is no u64 panics
RECURSIVE ParseAll(_, _, _)
ParseAll(chunks, k, buf) ==
    IF k > Len(chunks) THEN Done(buf)
    ELSE LET n == parse_u64(chunks[k])
         IN  IF ~n.ok THEN Panic ELSE ParseAll(chunks, k + 1, Append(buf, n.v))

to_vecu64(line) == ParseAll(split_whitespace(line), 2, <<>>)

to_u64(line) ==
    LET c == Chunk(split_whitespace(line), 2)
    IN  IF ~c.some THEN Panic
        ELSE LET n == parse_u64(c.v)
             IN  IF ~n.ok THEN Panic ELSE Done(n.v)

\* the `chunks.next(); chunks.next().unwrap().parse::<u32>().unwrap()` of stat()
to_u32(line) ==
    LET c == Chunk(split_whitespace(line), 2)
    IN  IF ~c.some THEN Panic
        ELSE LET n == parse_u32(c.v)
             IN  IF ~n.ok THEN Panic ELSE Done(n.v)

---------------------------------------------------------------------------
(* Stat (lib.rs 31-41, 579-593) and the body of the loop of stat().        *)

DefaultStat ==
    [ cpu |-> <<>>, cpus |-> <<>>, intr |-> <<>>, ctxt |-> 0, btime |-> 0,
      processes |-> 0, procs_running |-> 0, procs_blocked |-> 0,
      softirq |-> <<>> ]

\* the text each field's `if line.contains(<text>)` tests for
StatLabel ==
    [ cpus          |-> <<"c", "p", "u">>,
      intr          |-> (* intr *) <<"i", "n", "t", "r">>,
      ctxt          |-> (* ctxt *) <<"c", "t", "x", "t">>,
      btime         |-> (* btime *) <<"b", "t", "i", "m", "e">>,
      processes     |-> (* processes *) <<"p", "r", "o", "c", "e", "s", "s", "e", "s">>,
      procs_running |-> (* procs_running *)
        <<"p", "r", "o", "c", "s", "_", "r", "u", "n", "n", "i", "n", "g">>,
      procs_blocked |-> (* procs_blocked *)
        <<"p", "r", "o", "c", "s", "_", "b", "l", "o", "c", "k", "e", "d">>,
      softirq       |-> (* softirq *) <<"s", "o", "f", "t", "i", "r", "q">> ]

\* the test `line.contains("cpu") && line_num > 0` guarding stat.cpus.push
IsCoreLine(line, n) == Contains(line, StatLabel.cpus) /\ n > 0

\* one pass of the loop body on `line` at index n; the tests are independent
\* `if`s, each assigning its own field from the same line
StatLineStep(st, line, n) ==
    LET vec == to_vecu64(line)
        s64 == to_u64(line)
        s32 == to_u32(line)
        has(p) == Contains(line, p)
        panics ==
            \/ n = 0 /\ vec.panic
            \/ IsCoreLine(line, n) /\ vec.panic
            \/ has(StatLabel.intr) /\ vec.panic
            \/ has(StatLabel.ctxt) /\ s64.panic
            \/ has(StatLabel.btime) /\ s32.panic
            \/ has(StatLabel.processes) /\ s32.panic
            \/ has(StatLabel.procs_running) /\ s32.panic
            \/ has(StatLabel.procs_blocked) /\ s32.panic
            \/ has(StatLabel.softirq) /\ vec.panic
    IN  IF panics THEN Panic
        ELSE Done(
          [ cpu           |-> IF n = 0 THEN vec.v ELSE st.cpu,
            cpus          |-> IF IsCoreLine(line, n) THEN Append(st.cpus, vec.v) ELSE st.cpus,
            intr          |-> IF has(StatLabel.intr) THEN vec.v ELSE st.intr,
            ctxt          |-> IF has(StatLabel.ctxt) THEN s64.v ELSE st.ctxt,
            btime         |-> IF has(StatLabel.btime) THEN s32.v ELSE st.btime,
            processes     |-> IF has(StatLabel.processes) THEN s32.v ELSE st.processes,
            procs_running |-> IF has(StatLabel.procs_running) THEN s32.v ELSE st.procs_running,
            procs_blocked |-> IF has(StatLabel.procs_blocked) THEN s32.v ELSE st.procs_blocked,
            softirq       |-> IF has(StatLabel.softirq) THEN vec.v ELSE st.softirq ])

---------------------------------------------------------------------------
(* MemInfo (lib.rs 45-91, 595-645) and the body of the loop of meminfo().  *)

\* the label each field's `if line.contains(<label>)` tests for
MemLabel ==
    [ mem_total          |-> (* MemTotal *) <<"M", "e", "m", "T", "o", "t", "a", "l">>,
      mem_free           |-> (* MemFree *) <<"M", "e", "m", "F", "r", "e", "e">>,
      mem_available      |-> (* MemAvailable *) <<"M", "e", "m", "A", "v", "a", "i", "l", "a", "b", "l", "e">>,
      bufers             |-> (* Buffers *) <<"B", "u", "f", "f", "e", "r", "s">>,
      cached             |-> (* Cached *) <<"C", "a", "c", "h", "e", "d">>,
      swap_cached        |-> (* SwapCached *) <<"S", "w", "a", "p", "C", "a", "c", "h", "e", "d">>,
      active             |-> (* Active *) <<"A", "c", "t", "i", "v", "e">>,
      inactive           |-> (* Inactive *) <<"I", "n", "a", "c", "t", "i", "v", "e">>,
      active_anon        |-> (* Active(anon) *) <<"A", "c", "t", "i", "v", "e", "(", "a", "n", "o", "n", ")">>,
      inactive_anon      |-> (* Inactive(anon) *)
        <<"I", "n", "a", "c", "t", "i", "v", "e", "(", "a", "n", "o", "n", ")">>,
      active_file        |-> (* Active(file) *) <<"A", "c", "t", "i", "v", "e", "(", "f", "i", "l", "e", ")">>,
      inactive_file      |-> (* Inactive(file) *)
        <<"I", "n", "a", "c", "t", "i", "v", "e", "(", "f", "i", "l", "e", ")">>,
      unevictable        |-> (* Unevictable *) <<"U", "n", "e", "v", "i", "c", "t", "a", "b", "l", "e">>,
      mlocked            |-> (* Mlocked *) <<"M", "l", "o", "c", "k", "e", "d">>,
      swap_total         |-> (* SwapTotal *) <<"S", "w", "a", "p", "T", "o", "t", "a", "l">>,
      swap_free          |-> (* SwapFree *) <<"S", "w", "a", "p", "F", "r", "e", "e">>,
      dirty              |-> (* Dirty *) <<"D", "i", "r", "t", "y">>,
      writeback          |-> (* Writeback *) <<"W", "r", "i", "t", "e", "b", "a", "c", "k">>,
      anon_pages         |-> (* AnonPages *) <<"A", "n", "o", "n", "P", "a", "g", "e", "s">>,
      mapped             |-> (* Mapped *) <<"M", "a", "p", "p", "e", "d">>,
      shmem              |-> (* Shmem *) <<"S", "h", "m", "e", "m">>,
      slab               |-> (* Slab *) <<"S", "l", "a", "b">>,
      s_reclaimable      |-> (* SReclaimable *) <<"S", "R", "e", "c", "l", "a", "i", "m", "a", "b", "l", "e">>,
      s_unreclaim        |-> (* SUnreclaim *) <<"S", "U", "n", "r", "e", "c", "l", "a", "i", "m">>,
      kernel_stack       |-> (* KernelStack *) <<"K", "e", "r", "n", "e", "l", "S", "t", "a", "c", "k">>,
      page_tables        |-> (* PageTables *) <<"P", "a", "g", "e", "T", "a", "b", "l", "e", "s">>,
      nfs_unstable       |-> (* NFS_Unstable *) <<"N", "F", "S", "_", "U", "n", "s", "t", "a", "b", "l", "e">>,
      bounce             |-> (* Bounce *) <<"B", "o", "u", "n", "c", "e">>,
      writeback_tmp      |-> (* WritebackTmp *) <<"W", "r", "i", "t", "e", "b", "a", "c", "k", "T", "m", "p">>,
      commit_limit       |-> (* CommitLimit *) <<"C", "o", "m", "m", "i", "t", "L", "i", "m", "i", "t">>,
      committed_as       |-> (* Committed_AS *) <<"C", "o", "m", "m", "i", "t", "t", "e", "d", "_", "A", "S">>,
      vmalloc_total      |-> (* VmallocTotal *) <<"V", "m", "a", "l", "l", "o", "c", "T", "o", "t", "a", "l">>,
      vmalloc_used       |-> (* VmallocUsed *) <<"V", "m", "a", "l", "l", "o", "c", "U", "s", "e", "d">>,
      vmalloc_chunk      |-> (* VmallocChunk *) <<"V", "m", "a", "l", "l", "o", "c", "C", "h", "u", "n", "k">>,
      hardware_corrupted |-> (* HardwareCorrupted *)
        <<"H", "a", "r", "d", "w", "a", "r", "e", "C", "o", "r", "r", "u", "p",
          "t", "e", "d">>,
      anon_huge_pages    |-> (* AnonHugePages *)
        <<"A", "n", "o", "n", "H", "u", "g", "e", "P", "a", "g", "e", "s">>,
      cma_total          |-> (* CmaTotal *) <<"C", "m", "a", "T", "o", "t", "a", "l">>,
      cma_free           |-> (* CmaFree *) <<"C", "m", "a", "F", "r", "e", "e">>,
      huge_pages_total   |-> (* HugePages_Total *)
        <<"H", "u", "g", "e", "P", "a", "g", "e", "s", "_", "T", "o", "t", "a",
          "l">>,
      huge_pages_free    |-> (* HugePages_Free *)
        <<"H", "u", "g", "e", "P", "a", "g", "e", "s", "_", "F", "r", "e", "e">>,
      huge_pages_rsvd    |-> (* HugePages_Rsvd *)
        <<"H", "u", "g", "e", "P", "a", "g", "e", "s", "_", "R", "s", "v", "d">>,
      huge_pages_surp    |-> (* HugePages_Surp *)
        <<"H", "u", "g", "e", "P", "a", "g", "e", "s", "_", "S", "u", "r", "p">>,
      hugepagesize       |-> (* Hugepagesize *) <<"H", "u", "g", "e", "p", "a", "g", "e", "s", "i", "z", "e">>,
      direct_map_4k      |-> (* DirectMap4k *) <<"D", "i", "r", "e", "c", "t", "M", "a", "p", "4", "k">>,
      direct_map_2m      |-> (* DirectMap2M *) <<"D", "i", "r", "e", "c", "t", "M", "a", "p", "2", "M">> ]

MemFields == DOMAIN MemLabel

\* a Default impl that presets the huge page size
DefaultMemInfo_Preset ==
    [f \in MemFields |-> IF f = "hugepagesize" THEN 2048 ELSE 0]

DefaultMemInfo ==
    [ mem_total |-> 0, mem_free |-> 0, mem_available |-> 0, bufers |-> 0,
      cached |-> 0, swap_cached |-> 0, active |-> 0, inactive |-> 0,
      active_anon |-> 0, inactive_anon |-> 0, active_file |-> 0,
      inactive_file |-> 0, unevictable |-> 0, mlocked |-> 0, swap_total |-> 0,
      swap_free |-> 0, dirty |-> 0, writeback |-> 0, anon_pages |-> 0,
      mapped |-> 0, shmem |-> 0, slab |-> 0, s_reclaimable |-> 0,
      s_unreclaim |-> 0, kernel_stack |-> 0, page_tables |-> 0,
      nfs_unstable |-> 0, bounce |-> 0, writeback_tmp |-> 0,
      commit_limit |-> 0, committed_as |-> 0, vmalloc_total |-> 0,
      vmalloc_used |-> 0, vmalloc_chunk |-> 0, hardware_corrupted |-> 0,
      anon_huge_pages |-> 0, cma_total |-> 0, cma_free |-> 0,
      huge_pages_total |-> 0, huge_pages_free |-> 0, huge_pages_rsvd |-> 0,
      huge_pages_surp |-> 0, hugepagesize |-> 0, direct_map_4k |-> 0,
      direct_map_2m |-> 0 ]

\* label tests that compare only the text before "(" of a label
MemHits_BaseLabel(line) ==
    {f \in MemFields : Contains(line, split(MemLabel[f], "(")[1])}

\* the fields whose test `line.contains(label)` succeeds on this line
MemHits(line) == {f \in MemFields : Contains(line, MemLabel[f])}

\* a loop body that assigns a field only while it still holds its default
MemLineStep_FirstWins(m, line) ==
    LET hit == MemHits(line)
        val == to_u64(line)
    IN  IF hit # {} /\ val.panic THEN Panic
        ELSE Done([f \in MemFields |-> IF f \in hit /\ m[f] = 0 THEN val.v ELSE m[f]])

\* one pass of the loop body: every field whose test succeeds is assigned
\* to_u64(line); the tests are independent `if`s on distinct fields
MemLineStep(m, line) ==
    LET hit == MemHits(line)
        val == to_u64(line)
    IN  IF hit # {} /\ val.panic THEN Panic
        ELSE Done([f \in MemFields |-> IF f \in hit THEN val.v ELSE m[f]])

---------------------------------------------------------------------------
(* rustc_serialize::hex::FromHex::from_hex, as called at lib.rs 548, 575:  *)
(* two hex digits (either case) make a byte, whitespace is skipped, any    *)
(* other character or an odd number of digits is an error.                 *)

HexDigitsUpper == <<"0", "1", "2", "3", "4", "5", "6", "7", "8", "9",
                    "A", "B", "C", "D", "E", "F">>
HexDigitsLower == <<"0", "1", "2", "3", "4", "5", "6", "7", "8", "9",
                    "a", "b", "c", "d", "e", "f">>
IsHexDigit(c) == \E i \in 1..16 : HexDigitsUpper[i] = c \/ HexDigitsLower[i] = c
HexVal(c) == (CHOOSE i \in 1..16 : HexDigitsUpper[i] = c \/ HexDigitsLower[i] = c) - 1

RECURSIVE FromHexFrom(_, _, _, _, _)
FromHexFrom(s, i, modulus, buf, b) ==
    IF i > Len(s) THEN (IF modulus = 0 THEN Ok(b) ELSE Err)
    ELSE IF IsHexDigit(s[i])
         THEN LET nbuf == (buf * 16 + HexVal(s[i])) % 256
              IN  IF modulus = 1
                  THEN FromHexFrom(s, i + 1, 0, nbuf, Append(b, nbuf))
                  ELSE FromHexFrom(s, i + 1, 1, nbuf, b)
         ELSE IF IsWhitespace(s[i])
              THEN FromHexFrom(s, i + 1, modulus, buf, b)
              ELSE Err
from_hex(s) == FromHexFrom(s, 1, 0, 0, <<>>)

---------------------------------------------------------------------------
(* SocketState, SocketTimerState, to_ipaddr and to_net_socket.             *)

\* the variants of SocketState in the order of their discriminants 1..11
SocketState ==
    << "Established", "SynSent", "SynRecv", "FinWait1", "FinWait2",
       "TimeWait", "Close", "CloseWait", "LastAck", "Listen", "Closing" >>

\* SocketState::from_u8, generated by enum_from_primitive!
from_u8(n) == IF n \in 1..Len(SocketState) THEN Some(SocketState[n]) ELSE None

\* the two variants of SocketTimerState; neither carries a value
Inactive == [tag |-> "Inactive"]
Active == [tag |-> "Active"]

\* the `match timer[0].parse::<u8>().unwrap()` of to_net_socket
TimerOf(kind) == IF kind = 0 THEN Inactive ELSE Active

\* an address built from the bytes in the order of the text
to_ipaddr_TextOrder(hex) ==
    LET bytes == from_hex(hex)
    IN  IF ~bytes.ok \/ Len(bytes.v) < 4 THEN Panic
        ELSE Done(<<bytes.v[1], bytes.v[2], bytes.v[3], bytes.v[4]>>)

\* Ipv4Addr::from([bytes[3], bytes[2], bytes[1], bytes[0]]), as its octets
to_ipaddr(hex) ==
    LET bytes == from_hex(hex)
    IN  IF ~bytes.ok \/ Len(bytes.v) < 4 THEN Panic
        ELSE Done(<<bytes.v[4], bytes.v[3], bytes.v[2], bytes.v[1]>>)

to_net_socket(line) ==
    LET chunks == split_whitespace(line)
        col(k) == Chunk(chunks, k)
        sl     == parse_u64(split(col(1).v, ":")[1])
        local  == split(col(2).v, ":")
        remote == split(col(3).v, ":")
        state  == from_hex(col(4).v)
        queues == split(col(5).v, ":")
        timer  == split(col(6).v, ":")
        uid    == parse_u32(col(8).v)
        inode  == parse_u64(col(10).v)
        laddr  == to_ipaddr(local[1])
        raddr  == to_ipaddr(remote[1])
        tx     == parse_u64(queues[1])
        rx     == parse_u64(queues[2])
        kind   == parse_u8(timer[1])
    IN  IF \/ \E k \in 1..10 : ~col(k).some
           \/ ~sl.ok
           \/ ~state.ok \/ Len(state.v) < 1
           \/ ~uid.ok
           \/ ~inode.ok
           \/ laddr.panic
           \/ raddr.panic
           \/ ~from_u8(state.v[1]).some
           \/ ~tx.ok
           \/ Len(queues) < 2 \/ ~rx.ok
           \/ ~kind.ok
        THEN Panic
        ELSE Done(
          [ sl             |-> sl.v,
            local_address  |-> laddr.v,
            remote_address |-> raddr.v,
            state          |-> from_u8(state.v[1]).v,
            tx_queue       |-> tx.v,
            rx_queue       |-> rx.v,
            timer          |-> TimerOf(kind.v),
            uid            |-> uid.v,
            inode          |-> inode.v ])

---------------------------------------------------------------------------
(* The texts the calls are run on.                                         *)

\* all sequences over S of length at most n
SeqsUpTo(S, n) == UNION {[1..k -> S] : k \in 0..n}

\* the text whose lines are ls, each ended by "\n"
RECURSIVE Unlines(_)
Unlines(ls) == IF ls = <<>> THEN <<>> ELSE Head(ls) \o <<NL>> \o Unlines(Tail(ls))

\* /proc/stat lines, from the sample in the comment of stat() (numbers cut
\* short), a line whose label holds "cpu" without starting with it, a line
\* with a label and no number
StatLineSet ==
    { (* cpu  2255 34 2290 *)
        <<"c", "p", "u", " ", " ", "2", "2", "5", "5", " ", "3", "4", " ", "2",
          "2", "9", "0">>,
      (* cpu0 1132 34 1441 *)
        <<"c", "p", "u", "0", " ", "1", "1", "3", "2", " ", "3", "4", " ", "1",
          "4", "4", "1">>,
      (* cpu1 1123 0 849 *)
        <<"c", "p", "u", "1", " ", "1", "1", "2", "3", " ", "0", " ", "8", "4",
          "9">>,
      (* intr 114930548 113199788 3 *)
        <<"i", "n", "t", "r", " ", "1", "1", "4", "9", "3", "0", "5", "4", "8",
          " ", "1", "1", "3", "1", "9", "9", "7", "8", "8", " ", "3">>,
      (* ctxt 1990473 *) <<"c", "t", "x", "t", " ", "1", "9", "9", "0", "4", "7", "3">>,
      (* processes 2915 *)
        <<"p", "r", "o", "c", "e", "s", "s", "e", "s", " ", "2", "9", "1", "5">>,
      (* xcpu 7 8 *) <<"x", "c", "p", "u", " ", "7", " ", "8">>,
      (* btime *) <<"b", "t", "i", "m", "e">> }

\* the sample of the comment of stat(), the intr line cut short
StatExample ==
    << (* cpu  2255 34 2290 22625563 6290 127 456 0 0 0 *)
        <<"c", "p", "u", " ", " ", "2", "2", "5", "5", " ", "3", "4", " ", "2",
          "2", "9", "0", " ", "2", "2", "6", "2", "5", "5", "6", "3", " ", "6",
          "2", "9", "0", " ", "1", "2", "7", " ", "4", "5", "6", " ", "0", " ",
          "0", " ", "0">>,
       (* cpu0 1132 34 1441 11311718 3675 127 438 0 0 0 *)
        <<"c", "p", "u", "0", " ", "1", "1", "3", "2", " ", "3", "4", " ", "1",
          "4", "4", "1", " ", "1", "1", "3", "1", "1", "7", "1", "8", " ", "3",
          "6", "7", "5", " ", "1", "2", "7", " ", "4", "3", "8", " ", "0", " ",
          "0", " ", "0">>,
       (* cpu1 1123 0 849 11313845 2614 0 18 0 0 0 *)
        <<"c", "p", "u", "1", " ", "1", "1", "2", "3", " ", "0", " ", "8", "4",
          "9", " ", "1", "1", "3", "1", "3", "8", "4", "5", " ", "2", "6", "1",
          "4", " ", "0", " ", "1", "8", " ", "0", " ", "0", " ", "0">>,
       (* intr 114930548 113199788 3 0 5 263 0 4 *)
        <<"i", "n", "t", "r", " ", "1", "1", "4", "9", "3", "0", "5", "4", "8",
          " ", "1", "1", "3", "1", "9", "9", "7", "8", "8", " ", "3", " ", "0",
          " ", "5", " ", "2", "6", "3", " ", "0", " ", "4">>,
       (* ctxt 1990473 *) <<"c", "t", "x", "t", " ", "1", "9", "9", "0", "4", "7", "3">>,
       (* btime 1062191376 *)
        <<"b", "t", "i", "m", "e", " ", "1", "0", "6", "2", "1", "9", "1", "3",
          "7", "6">>,
       (* processes 2915 *)
        <<"p", "r", "o", "c", "e", "s", "s", "e", "s", " ", "2", "9", "1", "5">>,
       (* procs_running 1 *)
        <<"p", "r", "o", "c", "s", "_", "r", "u", "n", "n", "i", "n", "g", " ",
          "1">>,
       (* procs_blocked 0 *)
        <<"p", "r", "o", "c", "s", "_", "b", "l", "o", "c", "k", "e", "d", " ",
          "0">>,
       (* softirq 183433 0 21755 12 39 1137 231 21459 2263 *)
        <<"s", "o", "f", "t", "i", "r", "q", " ", "1", "8", "3", "4", "3", "3",
          " ", "0", " ", "2", "1", "7", "5", "5", " ", "1", "2", " ", "3", "9",
          " ", "1", "1", "3", "7", " ", "2", "3", "1", " ", "2", "1", "4", "5",
          "9", " ", "2", "2", "6", "3">> >>

StatTexts ==
    {Unlines(ls) : ls \in SeqsUpTo(StatLineSet, MaxStatLines)} \cup {Unlines(StatExample)}

\* /proc/meminfo lines in the kernel's layout, with values that tell the
\* lines apart, an unknown label, and a label without a value
MemLineSet ==
    { (* Cached:               11 kB *)
        <<"C", "a", "c", "h", "e", "d", ":", " ", " ", " ", " ", " ", " ", " ",
          " ", " ", " ", " ", " ", " ", " ", " ", "1", "1", " ", "k", "B">>,
      (* SwapCached:           12 kB *)
        <<"S", "w", "a", "p", "C", "a", "c", "h", "e", "d", ":", " ", " ", " ",
          " ", " ", " ", " ", " ", " ", " ", " ", "1", "2", " ", "k", "B">>,
      (* Active:               13 kB *)
        <<"A", "c", "t", "i", "v", "e", ":", " ", " ", " ", " ", " ", " ", " ",
          " ", " ", " ", " ", " ", " ", " ", " ", "1", "3", " ", "k", "B">>,
      (* Inactive:             14 kB *)
        <<"I", "n", "a", "c", "t", "i", "v", "e", ":", " ", " ", " ", " ", " ",
          " ", " ", " ", " ", " ", " ", " ", " ", "1", "4", " ", "k", "B">>,
      (* Active(anon):         15 kB *)
        <<"A", "c", "t", "i", "v", "e", "(", "a", "n", "o", "n", ")", ":", " ",
          " ", " ", " ", " ", " ", " ", " ", " ", "1", "5", " ", "k", "B">>,
      (* Inactive(anon):       16 kB *)
        <<"I", "n", "a", "c", "t", "i", "v", "e", "(", "a", "n", "o", "n", ")",
          ":", " ", " ", " ", " ", " ", " ", " ", "1", "6", " ", "k", "B">>,
      (* Active(file):         17 kB *)
        <<"A", "c", "t", "i", "v", "e", "(", "f", "i", "l", "e", ")", ":", " ",
          " ", " ", " ", " ", " ", " ", " ", " ", "1", "7", " ", "k", "B">>,
      (* Inactive(file):       18 kB *)
        <<"I", "n", "a", "c", "t", "i", "v", "e", "(", "f", "i", "l", "e", ")",
          ":", " ", " ", " ", " ", " ", " ", " ", "1", "8", " ", "k", "B">>,
      (* Writeback:            19 kB *)
        <<"W", "r", "i", "t", "e", "b", "a", "c", "k", ":", " ", " ", " ", " ",
          " ", " ", " ", " ", " ", " ", " ", " ", "1", "9", " ", "k", "B">>,
      (* WritebackTmp:         20 kB *)
        <<"W", "r", "i", "t", "e", "b", "a", "c", "k", "T", "m", "p", ":", " ",
          " ", " ", " ", " ", " ", " ", " ", " ", "2", "0", " ", "k", "B">>,
      (* HugePages_Total:      21 *)
        <<"H", "u", "g", "e", "P", "a", "g", "e", "s", "_", "T", "o", "t", "a",
          "l", ":", " ", " ", " ", " ", " ", " ", "2", "1">>,
      (* ShmemPmdMapped:       22 kB *)
        <<"S", "h", "m", "e", "m", "P", "m", "d", "M", "a", "p", "p", "e", "d",
          ":", " ", " ", " ", " ", " ", " ", " ", "2", "2", " ", "k", "B">>,
      (* Zswap:                23 kB *)
        <<"Z", "s", "w", "a", "p", ":", " ", " ", " ", " ", " ", " ", " ", " ",
          " ", " ", " ", " ", " ", " ", " ", " ", "2", "3", " ", "k", "B">>,
      (* Dirty: *) <<"D", "i", "r", "t", "y", ":">> }

\* lines 261-269 of the sample in the comment of meminfo()
MemExample ==
    << (* Buffers:           35428 kB *)
        <<"B", "u", "f", "f", "e", "r", "s", ":", " ", " ", " ", " ", " ", " ",
          " ", " ", " ", " ", " ", "3", "5", "4", "2", "8", " ", "k", "B">>,
       (* Cached:           386132 kB *)
        <<"C", "a", "c", "h", "e", "d", ":", " ", " ", " ", " ", " ", " ", " ",
          " ", " ", " ", " ", "3", "8", "6", "1", "3", "2", " ", "k", "B">>,
       (* SwapCached:            0 kB *)
        <<"S", "w", "a", "p", "C", "a", "c", "h", "e", "d", ":", " ", " ", " ",
          " ", " ", " ", " ", " ", " ", " ", " ", " ", "0", " ", "k", "B">>,
       (* Active:          1229080 kB *)
        <<"A", "c", "t", "i", "v", "e", ":", " ", " ", " ", " ", " ", " ", " ",
          " ", " ", " ", "1", "2", "2", "9", "0", "8", "0", " ", "k", "B">>,
       (* Inactive:         284000 kB *)
        <<"I", "n", "a", "c", "t", "i", "v", "e", ":", " ", " ", " ", " ", " ",
          " ", " ", " ", " ", "2", "8", "4", "0", "0", "0", " ", "k", "B">>,
       (* Active(anon):    1094728 kB *)
        <<"A", "c", "t", "i", "v", "e", "(", "a", "n", "o", "n", ")", ":", " ",
          " ", " ", " ", "1", "0", "9", "4", "7", "2", "8", " ", "k", "B">>,
       (* Inactive(anon):    17664 kB *)
        <<"I", "n", "a", "c", "t", "i", "v", "e", "(", "a", "n", "o", "n", ")",
          ":", " ", " ", " ", " ", "1", "7", "6", "6", "4", " ", "k", "B">>,
       (* Active(file):     134352 kB *)
        <<"A", "c", "t", "i", "v", "e", "(", "f", "i", "l", "e", ")", ":", " ",
          " ", " ", " ", " ", "1", "3", "4", "3", "5", "2", " ", "k", "B">>,
       (* Inactive(file):   266336 kB *)
        <<"I", "n", "a", "c", "t", "i", "v", "e", "(", "f", "i", "l", "e", ")",
          ":", " ", " ", " ", "2", "6", "6", "3", "3", "6", " ", "k", "B">> >>

MemTexts ==
    {Unlines(ls) : ls \in SeqsUpTo(MemLineSet, MaxMemLines)} \cup {Unlines(MemExample)}

\* a socket table row in the layout of /proc/net/tcp, from its columns
Row(sl, local, remote, st, queues, timer, uid, inode) ==
    <<SP, SP>> \o sl \o <<SP>> \o local \o <<SP>> \o remote \o <<SP>> \o st
      \o <<SP>> \o queues \o <<SP>> \o timer \o <<SP>> \o (* 00000000 *) <<"0", "0", "0", "0", "0", "0", "0", "0">>
      \o <<SP, SP>> \o uid \o (* 0 *) <<" ", " ", " ", " ", " ", " ", " ", " ", "0", " ">> \o inode
      \o (* 1 ffff938ed0741080 20 4 29 10 -1 *)
        <<" ", "1", " ", "f", "f", "f", "f", "9", "3", "8", "e", "d", "0", "7",
          "4", "1", "0", "8", "0", " ", "2", "0", " ", "4", " ", "2", "9", " ",
          "1", "0", " ", "-", "1">>

\* the row of test_to_net_socket (lib.rs 655)
TestRow ==
    (* 49: 0100007F:1111 5B41EE2E:50 0A 00000001:00000002 00:00000000 00000000  1001        0 2796814 1 ffff938ed0741080 20 4 29 10 -1 *)
        <<" ", " ", "4", "9", ":", " ", "0", "1", "0", "0", "0", "0", "7", "F",
          ":", "1", "1", "1", "1", " ", "5", "B", "4", "1", "E", "E", "2", "E",
          ":", "5", "0", " ", "0", "A", " ", "0", "0", "0", "0", "0", "0", "0",
          "1", ":", "0", "0", "0", "0", "0", "0", "0", "2", " ", "0", "0", ":",
          "0", "0", "0", "0", "0", "0", "0", "0", " ", "0", "0", "0", "0", "0",
          "0", "0", "0", " ", " ", "1", "0", "0", "1", " ", " ", " ", " ", " ",
          " ", " ", " ", "0", " ", "2", "7", "9", "6", "8", "1", "4", " ", "1",
          " ", "f", "f", "f", "f", "9", "3", "8", "e", "d", "0", "7", "4", "1",
          "0", "8", "0", " ", "2", "0", " ", "4", " ", "2", "9", " ", "1", "0",
          " ", "-", "1">>

\* the columns of TestRow
TestSl == <<"4", "9", ":">>
TestLocal == (* 0100007F:1111 *)
        <<"0", "1", "0", "0", "0", "0", "7", "F", ":", "1", "1", "1", "1">>
TestRemote == (* 5B41EE2E:50 *) <<"5", "B", "4", "1", "E", "E", "2", "E", ":", "5", "0">>
TestState == <<"0", "A">>
TestQueues == (* 00000001:00000002 *)
        <<"0", "0", "0", "0", "0", "0", "0", "1", ":", "0", "0", "0", "0", "0",
          "0", "0", "2">>
TestTimer == (* 00:00000000 *) <<"0", "0", ":", "0", "0", "0", "0", "0", "0", "0", "0">>
TestUid == (* 1001 *) <<"1", "0", "0", "1">>
TestInode == (* 2796814 *) <<"2", "7", "9", "6", "8", "1", "4">>

\* TestRow with one column replaced
WithLocal(t)  == Row(TestSl, t, TestRemote, TestState, TestQueues, TestTimer, TestUid, TestInode)
WithRemote(t) == Row(TestSl, TestLocal, t, TestState, TestQueues, TestTimer, TestUid, TestInode)
WithState(t)  == Row(TestSl, TestLocal, TestRemote, t, TestQueues, TestTimer, TestUid, TestInode)
WithQueues(t) == Row(TestSl, TestLocal, TestRemote, TestState, t, TestTimer, TestUid, TestInode)
WithTimer(t)  == Row(TestSl, TestLocal, TestRemote, TestState, TestQueues, t, TestUid, TestInode)
WithUid(t)    == Row(TestSl, TestLocal, TestRemote, TestState, TestQueues, TestTimer, t, TestInode)
WithSl(t)     == Row(t, TestLocal, TestRemote, TestState, TestQueues, TestTimer, TestUid, TestInode)

\* two hex digits each; an address token is four of them
ByteTokens == { <<"0", "0">>, <<"0", "1">>, <<"7", "F">>, <<"E", "E">> }
AddrTokens ==
    {a \o b \o c \o d : a \in ByteTokens, b \in ByteTokens, c \in ByteTokens, d \in ByteTokens}
      \cup { (* 0100007F *) <<"0", "1", "0", "0", "0", "0", "7", "F">>,
             (* 5B41EE2E *) <<"5", "B", "4", "1", "E", "E", "2", "E">> }

EndpointTokens ==
    {a \o (* :0050 *) <<":", "0", "0", "5", "0">> : a \in AddrTokens}
      \cup { (* 0100007F:1132 *)
        <<"0", "1", "0", "0", "0", "0", "7", "F", ":", "1", "1", "3", "2">>,
             (* 0100007F *) <<"0", "1", "0", "0", "0", "0", "7", "F">>,
             (* 01007F:0050 *) <<"0", "1", "0", "0", "7", "F", ":", "0", "0", "5", "0">>,
             (* 0100007G:0050 *)
        <<"0", "1", "0", "0", "0", "0", "7", "G", ":", "0", "0", "5", "0">>,
             (* :0050 *) <<":", "0", "0", "5", "0">> }

StateTokens ==
    { <<"0", "0">>,
      <<"0", "1">>,
      <<"0", "2">>,
      <<"0", "3">>,
      <<"0", "4">>,
      <<"0", "5">>,
      <<"0", "6">>,
      <<"0", "7">>,
      <<"0", "8">>,
      <<"0", "9">>,
      <<"0", "A">>,
      <<"0", "B">>,
      <<"0", "C">>,
      <<"0", "D">>,
      <<"0", "E">>,
      <<"0", "F">>,
      <<"1", "0">>,
      <<"1", "1">>,
      <<"7", "F">>,
      <<"F", "F">>,
      <<"0", "a">>,
      <<"A">>,
      <<"0", "G">> }

QueueTokens ==
    { (* 00000001:00000002 *)
        <<"0", "0", "0", "0", "0", "0", "0", "1", ":", "0", "0", "0", "0", "0",
          "0", "0", "2">>,
      (* 00000000:00000000 *)
        <<"0", "0", "0", "0", "0", "0", "0", "0", ":", "0", "0", "0", "0", "0",
          "0", "0", "0">>,
      (* 00000010:00000010 *)
        <<"0", "0", "0", "0", "0", "0", "1", "0", ":", "0", "0", "0", "0", "0",
          "0", "1", "0">>,
      (* 0000000A:00000010 *)
        <<"0", "0", "0", "0", "0", "0", "0", "A", ":", "0", "0", "0", "0", "0",
          "0", "1", "0">>,
      (* 00000001:0000000A *)
        <<"0", "0", "0", "0", "0", "0", "0", "1", ":", "0", "0", "0", "0", "0",
          "0", "0", "A">>,
      (* 00000001 *) <<"0", "0", "0", "0", "0", "0", "0", "1">> }

TimerTokens ==
    { (* 00:00000000 *) <<"0", "0", ":", "0", "0", "0", "0", "0", "0", "0", "0">>,
      (* 00:0000000B *) <<"0", "0", ":", "0", "0", "0", "0", "0", "0", "0", "B">>,
      (* 01:0000000B *) <<"0", "1", ":", "0", "0", "0", "0", "0", "0", "0", "B">>,
      (* 01:00000000 *) <<"0", "1", ":", "0", "0", "0", "0", "0", "0", "0", "0">>,
      (* 02:000001F4 *) <<"0", "2", ":", "0", "0", "0", "0", "0", "1", "F", "4">>,
      (* 255:0 *) <<"2", "5", "5", ":", "0">>,
      (* 256:0 *) <<"2", "5", "6", ":", "0">>,
      (* 0A:00000000 *) <<"0", "A", ":", "0", "0", "0", "0", "0", "0", "0", "0">> }

UidTokens == { <<"0">>, (* 1001 *) <<"1", "0", "0", "1">>, (* 4294967295x *) <<"4", "2", "9", "4", "9", "6", "7", "2", "9", "5", "x">>, (* 4294967296 *) <<"4", "2", "9", "4", "9", "6", "7", "2", "9", "6">> }
SlTokens == { <<"0", ":">>, <<"4", "9", ":">>, <<"x", ":">> }

\* tables of one row in which one column takes each of its tokens
FieldRowSet ==
    {WithLocal(t) : t \in EndpointTokens} \cup {WithRemote(t) : t \in EndpointTokens}
      \cup {WithState(t) : t \in StateTokens} \cup {WithQueues(t) : t \in QueueTokens}
      \cup {WithTimer(t) : t \in TimerTokens} \cup {WithUid(t) : t \in UidTokens}
      \cup {WithSl(t) : t \in SlTokens}

\* a second row that decodes
ListenRow ==
    (* 1: 00000000:0016 00000000:0000 0A 00000000:00000000 02:000001F4 00000000     0        0 11 1 *)
        <<" ", " ", " ", "1", ":", " ", "0", "0", "0", "0", "0", "0", "0", "0",
          ":", "0", "0", "1", "6", " ", "0", "0", "0", "0", "0", "0", "0", "0",
          ":", "0", "0", "0", "0", " ", "0", "A", " ", "0", "0", "0", "0", "0",
          "0", "0", "0", ":", "0", "0", "0", "0", "0", "0", "0", "0", " ", "0",
          "2", ":", "0", "0", "0", "0", "0", "1", "F", "4", " ", "0", "0", "0",
          "0", "0", "0", "0", "0", " ", " ", " ", " ", " ", "0", " ", " ", " ",
          " ", " ", " ", " ", " ", "0", " ", "1", "1", " ", "1">>

\* a row cut off after its fifth column
TruncatedRow == (* 2: 0100007F:0050 0100007F:1132 06 00000000:00000000 *)
        <<" ", " ", " ", "2", ":", " ", "0", "1", "0", "0", "0", "0", "7", "F",
          ":", "0", "0", "5", "0", " ", "0", "1", "0", "0", "0", "0", "7", "F",
          ":", "1", "1", "3", "2", " ", "0", "6", " ", "0", "0", "0", "0", "0",
          "0", "0", "0", ":", "0", "0", "0", "0", "0", "0", "0", "0">>

\* rows for tables of several rows: two that decode, one cut off after the
\* fifth column, one with state code 00
TableRowSet ==
    { TestRow,
      ListenRow,
      TruncatedRow,
      WithState(<<"0", "0">>) }

TableHeader ==
    (* sl  local_address rem_address   st tx_queue rx_queue tr tm->when retrnsmt   uid  timeout inode *)
        <<" ", " ", "s", "l", " ", " ", "l", "o", "c", "a", "l", "_", "a", "d",
          "d", "r", "e", "s", "s", " ", "r", "e", "m", "_", "a", "d", "d", "r",
          "e", "s", "s", " ", " ", " ", "s", "t", " ", "t", "x", "_", "q", "u",
          "e", "u", "e", " ", "r", "x", "_", "q", "u", "e", "u", "e", " ", "t",
          "r", " ", "t", "m", "-", ">", "w", "h", "e", "n", " ", "r", "e", "t",
          "r", "n", "s", "m", "t", " ", " ", " ", "u", "i", "d", " ", " ", "t",
          "i", "m", "e", "o", "u", "t", " ", "i", "n", "o", "d", "e">>

NetTexts ==
    { <<>> }
      \cup {Unlines(<<TableHeader>> \o rows) : rows \in SeqsUpTo(TableRowSet, MaxNetRows)}
      \cup {Unlines(<<TableHeader, r>>) : r \in FieldRowSet}

---------------------------------------------------------------------------
(* What acquiring the text can do.                                         *)

\* Command::new("cat").arg(..).output(): the spawn fails, cat exits with a
\* failure status, or cat succeeds with its stdout
CommandOutcomes(texts) ==
    {[kind |-> "spawn_err"], [kind |-> "exit_failure"]}
      \cup {[kind |-> "success", stdout |-> t] : t \in texts}

\* where a failing read may stop: nothing read, half read, all read
ReadCuts(data) == {0, Len(data) \div 2, Len(data)}

\* File::open and read_to_string on a file holding one of `texts`: open
\* fails, or the read succeeds, or the read fails with a prefix in the buffer
FileOutcomes(texts) ==
    {[open |-> FALSE]}
      \cup {[open |-> TRUE, read |-> TRUE, content |-> t] : t \in texts}
      \cup UNION {{[open |-> TRUE, read |-> FALSE, content |-> SubSeq(t, 1, n)]
                      : n \in ReadCuts(t)} : t \in texts}

\* read_file: the result of the read is dropped by `.and(Ok(content))`, so
\* only a failed open is an error
read_file(f) == IF f.open THEN Ok(f.content) ELSE Err

\* the name of what happened to the file: File::open failed, read_to_string
\* failed after a successful open, or both succeeded
FileOutcome(f) ==
    IF ~f.open THEN "open_err" ELSE IF ~f.read THEN "read_err" ELSE "success"

\* the number of lines net() drops: `.skip(1)`
NetSkip == 1

NoRet == [kind |-> "None"]
RetOk(v) == [kind |-> "Ok", value |-> v]
RetErr(e) == [kind |-> "Err", error |-> e]

---------------------------------------------------------------------------
(* The state machine.                                                      *)

Init ==
    /\ pc = "idle"
    /\ op = "none"
    /\ lines = <<>>
    /\ line_num = 0
    /\ stat = DefaultStat
    /\ meminfo = DefaultMemInfo
    /\ sockets = <<>>
    /\ ret = NoRet
    /\ io = "none"

\* stat(), up to the loop: run cat, return its failure or start on its lines
StatCall ==
    /\ pc = "idle"
    /\ \E out \in CommandOutcomes(StatTexts) :
         /\ op' = "stat"
         /\ io' = out.kind
         /\ IF out.kind = "success"
            THEN /\ pc' = "stat_loop"
                 /\ lines' = Lines(out.stdout)
                 /\ ret' = ret
            ELSE /\ pc' = "returned"
                 /\ lines' = lines
                 /\ ret' = RetErr(out.kind)
    /\ stat' = DefaultStat
    /\ line_num' = 0
    /\ UNCHANGED <<meminfo, sockets>>

\* one pass of the loop of stat()
StatLine ==
    /\ pc = "stat_loop"
    /\ line_num < Len(lines)
    /\ LET r == StatLineStep(stat, lines[line_num + 1], line_num)
       IN  IF r.panic
           THEN pc' = "panicked" /\ UNCHANGED <<stat, line_num>>
           ELSE pc' = pc /\ stat' = r.v /\ line_num' = line_num + 1
    /\ UNCHANGED <<op, lines, meminfo, sockets, ret, io>>

\* `return Ok(stat)`
StatReturn ==
    /\ pc = "stat_loop"
    /\ line_num >= Len(lines)
    /\ pc' = "returned"
    /\ ret' = RetOk(stat)
    /\ UNCHANGED <<op, lines, line_num, stat, meminfo, sockets, io>>

\* meminfo(), up to the loop
MeminfoCall ==
    /\ pc = "idle"
    /\ \E out \in CommandOutcomes(MemTexts) :
         /\ op' = "meminfo"
         /\ io' = out.kind
         /\ IF out.kind = "success"
            THEN /\ pc' = "meminfo_loop"
                 /\ lines' = Lines(out.stdout)
                 /\ ret' = ret
            ELSE /\ pc' = "returned"
                 /\ lines' = lines
                 /\ ret' = RetErr(out.kind)
    /\ meminfo' = DefaultMemInfo
    /\ line_num' = 0
    /\ UNCHANGED <<stat, sockets>>

\* one pass of the loop of meminfo()
MeminfoLine ==
    /\ pc = "meminfo_loop"
    /\ line_num < Len(lines)
    /\ LET r == MemLineStep(meminfo, lines[line_num + 1])
       IN  IF r.panic
           THEN pc' = "panicked" /\ UNCHANGED <<meminfo, line_num>>
           ELSE pc' = pc /\ meminfo' = r.v /\ line_num' = line_num + 1
    /\ UNCHANGED <<op, lines, stat, sockets, ret, io>>

\* `Ok(meminfo)`
MeminfoReturn ==
    /\ pc = "meminfo_loop"
    /\ line_num >= Len(lines)
    /\ pc' = "returned"
    /\ ret' = RetOk(meminfo)
    /\ UNCHANGED <<op, lines, line_num, stat, meminfo, sockets, io>>

\* tcp() and udp(): net(path) up to the first row; both paths hold a table
\* of the same layout
NetCall ==
    /\ pc = "idle"
    /\ \E path \in {"tcp", "udp"}, f \in FileOutcomes(NetTexts) :
         LET content == read_file(f)
         IN  /\ op' = path
             /\ io' = FileOutcome(f)
             /\ IF content.ok
                THEN /\ pc' = "net_loop"
                     /\ lines' = Lines(content.v)
                     /\ ret' = ret
                ELSE /\ pc' = "returned"
                     /\ lines' = lines
                     /\ ret' = RetErr("open_err")
    /\ sockets' = <<>>
    /\ line_num' = NetSkip
    /\ UNCHANGED <<stat, meminfo>>

\* `.map(to_net_socket)` on the next row drawn by collect()
NetRow ==
    /\ pc = "net_loop"
    /\ line_num < Len(lines)
    /\ LET r == to_net_socket(lines[line_num + 1])
       IN  IF r.panic
           THEN pc' = "panicked" /\ UNCHANGED <<sockets, line_num>>
           ELSE pc' = pc /\ sockets' = Append(sockets, r.v) /\ line_num' = line_num + 1
    /\ UNCHANGED <<op, lines, stat, meminfo, ret, io>>

\* `Ok(... .collect())`
NetReturn ==
    /\ pc = "net_loop"
    /\ line_num >= Len(lines)
    /\ pc' = "returned"
    /\ ret' = RetOk(sockets)
    /\ UNCHANGED <<op, lines, line_num, stat, meminfo, sockets, io>>

Next ==
    \/ StatCall \/ StatLine \/ StatReturn
    \/ MeminfoCall \/ MeminfoLine \/ MeminfoReturn
    \/ NetCall \/ NetRow \/ NetReturn

Spec == Init /\ [][Next]_vars

---------------------------------------------------------------------------
(* Vocabulary of the properties.                                           *)

Finished == pc \in {"returned", "panicked"}
IsNet == op \in {"tcp", "udp"}

StartsWith(s, p) == Len(s) >= Len(p) /\ SubSeq(s, 1, Len(p)) = p

\* the label of a report line: its first chunk, up to a ":" if it has one
LabelOf(line) ==
    LET chunks == split_whitespace(line)
    IN  IF chunks = <<>> THEN <<>> ELSE split(chunks[1], ":")[1]

\* the index of the last of the lines ls that satisfies P, 0 if none does
LastWhere(ls, P(_)) ==
    LET I == {i \in 1..Len(ls) : P(ls[i])}
    IN  IF I = {} THEN 0 ELSE CHOOSE i \in I : \A j \in I : j <= i

\* the number a string of hex digits denotes
RECURSIVE HexNumber(_, _)
HexNumber(ds, acc) ==
    IF ds = <<>> THEN acc ELSE HexNumber(Tail(ds), 16 * acc + HexVal(ds[1]))

IsHexString(tok) == tok # <<>> /\ \A i \in 1..Len(tok) : IsHexDigit(tok[i])

\* the k-th column of a table row, and the part of it before / after ":"
Column(row, k) == split_whitespace(row)[k]
Before(tok) == split(tok, ":")[1]
After(tok) == split(tok, ":")[2]

\* the value of the i-th pair of hex digits of an address token
ByteAt(tok, i) == 16 * HexVal(tok[2 * i - 1]) + HexVal(tok[2 * i])

---------------------------------------------------------------------------
(* C1: decoding empty input (zero lines) never fails and yields the        *)
(* default record: the counter report has every sequence empty and every   *)
(* scalar 0, the memory report has every field 0, the socket table is the  *)
(* empty sequence.  A call whose text was acquired and has no lines never  *)
(* panics and returns Ok with exactly that value.                          *)
C1_EmptyInputYieldsDefault ==
    (pc # "idle" /\ lines = <<>> /\ ~(pc = "returned" /\ ret.kind = "Err")) =>
        /\ pc # "panicked"
        /\ pc = "returned" =>
             /\ ret.kind = "Ok"
             /\ op = "stat" =>
                  /\ ret.value.cpu = <<>> /\ ret.value.cpus = <<>>
                  /\ ret.value.intr = <<>> /\ ret.value.softirq = <<>>
                  /\ ret.value.ctxt = 0 /\ ret.value.btime = 0
                  /\ ret.value.processes = 0 /\ ret.value.procs_running = 0
                  /\ ret.value.procs_blocked = 0
             /\ op = "meminfo" =>
                  /\ Cardinality(DOMAIN ret.value) = 45
                  /\ \A f \in DOMAIN ret.value : ret.value[f] = 0
             /\ IsNet => ret.value = <<>>

\* meminfo() has returned from a text without lines
C1_Witness ==
    op = "meminfo" /\ pc = "returned" /\ lines = <<>> /\ ret.kind = "Ok"

---------------------------------------------------------------------------
(* C2 (as claimed): in the memory report a line assigns a field only when  *)
(* the line begins with that field's label, so the returned record holds,  *)
(* in every field, the number of the last line that begins with the        *)
(* field's label (0 if there is none); in particular "Cached: x" followed  *)
(* by "SwapCached: y" gives cached = x and swap_cached = y.                *)
C2_PrefixMatchOnly ==
    (op = "meminfo" /\ pc = "returned" /\ ret.kind = "Ok") =>
        \A f \in MemFields :
            LET own(l) == StartsWith(l, MemLabel[f])
                i == LastWhere(lines, own)
            IN  ret.value[f] = IF i = 0 THEN 0 ELSE to_u64(lines[i]).v

---------------------------------------------------------------------------
(* C3 (as claimed): the queue column "<tx>:<rx>" is read as two            *)
(* hexadecimal numbers: a row whose queue parts are hex strings decodes,   *)
(* with tx_queue and rx_queue the base-16 values of the parts.             *)
C3_QueuesAreHex ==
    \A t \in QueueTokens :
        ( /\ IsNet /\ Finished /\ ~(pc = "returned" /\ ret.kind = "Err")
          /\ lines = <<TableHeader, WithQueues(t)>>
          /\ Len(split(t, ":")) = 2
          /\ IsHexString(Before(t)) /\ IsHexString(After(t)) ) =>
            /\ pc = "returned"
            /\ ret.kind = "Ok"
            /\ Len(ret.value) = 1
            /\ ret.value[1].tx_queue = HexNumber(Before(t), 0)
            /\ ret.value[1].rx_queue = HexNumber(After(t), 0)

---------------------------------------------------------------------------
\* rows that break the column contract: cut short, a state code outside
\* 1..11 or no hex, a uid, slot or address that does not parse
C4_MalformedRows ==
    { TruncatedRow, WithState(<<"0", "0">>), WithState(<<"0", "C">>), WithState(<<"0", "G">>),
      WithUid(<<"4", "2", "9", "4", "9", "6", "7", "2", "9", "5", "x">>), WithSl(<<"x", ":">>), WithLocal(<<"0", "1", "0", "0", "0", "0", "7", "G", ":", "0", "0", "5", "0">>) }

(* C4 (as claimed): decoding a table with a malformed data row (a column   *)
(* among the first ten missing, a token that does not parse, a state code  *)
(* outside the enumeration) ends by returning a failure value to the       *)
(* caller: no panic, no records.                                           *)
C4_MalformedRowIsFailureValue ==
    ( /\ IsNet /\ Finished /\ Len(lines) >= 2
      /\ \E k \in 2..Len(lines) : lines[k] \in C4_MalformedRows ) =>
        /\ pc = "returned"
        /\ ret.kind = "Err"

---------------------------------------------------------------------------
\* the state table as the specification gives it, by code 1..11
C5_StateTable ==
    << "Established", "SynSent", "SynRecv", "FinWait1", "FinWait2",
       "TimeWait", "Close", "CloseWait", "LastAck", "Listen", "Closing" >>

(* C5 (as claimed): the hex byte of the state column maps through          *)
(* 1=Established .. 10=Listen, 11=Closing, and a code 00 or above 0B is a  *)
(* structural failure (a failure value returned to the caller), not a      *)
(* state value.                                                            *)
C5_StateDecoding ==
    \A t \in StateTokens :
        ( /\ IsNet /\ Finished /\ lines = <<TableHeader, WithState(t)>>
          /\ Len(t) = 2 /\ IsHexString(t) ) =>
            IF ByteAt(t, 1) \in 1..11
            THEN /\ pc = "returned" /\ ret.kind = "Ok"
                 /\ ret.value[1].state = C5_StateTable[ByteAt(t, 1)]
            ELSE pc = "returned" /\ ret.kind = "Err"

---------------------------------------------------------------------------
(* C6 (as claimed): the timer column "<kind>:<value>": kind 0 yields       *)
(* Inactive whatever the value, every other kind yields Active carrying    *)
(* the value part read as hexadecimal ("01:0000000B" yields Active(11)).   *)
C6_TimerDecoding ==
    \A t \in TimerTokens :
        ( /\ IsNet /\ Finished /\ lines = <<TableHeader, WithTimer(t)>>
          /\ parse_u8(Before(t)).ok ) =>
            /\ pc = "returned" /\ ret.kind = "Ok"
            /\ ret.value[1].timer =
                 IF parse_u8(Before(t)).v = 0
                 THEN [tag |-> "Inactive"]
                 ELSE [tag |-> "Active", value |-> HexNumber(After(t), 0)]

---------------------------------------------------------------------------
\* the 8-digit upper-case hex text of four octets
C7_HexOf(octets) ==
    LET hi(k) == HexDigitsUpper[(octets[k] \div 16) + 1]
        lo(k) == HexDigitsUpper[(octets[k] % 16) + 1]
    IN  <<hi(1), lo(1), hi(2), lo(2), hi(3), lo(3), hi(4), lo(4)>>

\* octets are the bytes of tok in reverse order, and decoding the hex text
\* of octets gives the bytes of tok in their own order
C7_Reversed(tok, octets) ==
    /\ octets = <<ByteAt(tok, 4), ByteAt(tok, 3), ByteAt(tok, 2), ByteAt(tok, 1)>>
    /\ to_ipaddr(C7_HexOf(octets)) =
         Done(<<ByteAt(tok, 1), ByteAt(tok, 2), ByteAt(tok, 3), ByteAt(tok, 4)>>)

(* C7: address decoding reverses the byte order of the address token: for  *)
(* hex bytes b0 b1 b2 b3 the octets are [b3, b2, b1, b0], for the local    *)
(* address (second column) and the remote address (third column) alike     *)
(* ("0100007F" gives [127,0,0,1], "5B41EE2E" gives [46,238,65,91]), and    *)
(* reversing twice gives back the bytes of the token: decoding the hex     *)
(* text of a decoded address yields b0 b1 b2 b3 again.                     *)

C7_AddressBytesReversed ==
    (IsNet /\ pc = "returned" /\ ret.kind = "Ok") =>
        \A k \in 1..Len(ret.value) :
            LET row == lines[k + NetSkip]
            IN  /\ C7_Reversed(Before(Column(row, 2)), ret.value[k].local_address)
                /\ C7_Reversed(Before(Column(row, 3)), ret.value[k].remote_address)

\* the row of test_to_net_socket has been decoded and returned
C7_Witness ==
    /\ IsNet /\ pc = "returned" /\ ret.kind = "Ok"
    /\ lines = <<TableHeader, TestRow>>
    /\ ret.value[1].local_address = <<127, 0, 0, 1>>
    /\ ret.value[1].remote_address = <<46, 238, 65, 91>>

---------------------------------------------------------------------------
(* C8 (as claimed): every decoded socket record carries local_port and     *)
(* remote_port, the hexadecimal value of the text after ":" in the second  *)
(* and third columns ("0050" is 80, "1132" is 4402).                       *)
C8_PortsDecoded ==
    (IsNet /\ pc = "returned" /\ ret.kind = "Ok") =>
        \A k \in 1..Len(ret.value) :
            LET row == lines[k + NetSkip]
                rec == ret.value[k]
            IN  /\ "local_port" \in DOMAIN rec
                /\ "remote_port" \in DOMAIN rec
                /\ rec.local_port = HexNumber(After(Column(row, 2)), 0)
                /\ rec.remote_port = HexNumber(After(Column(row, 3)), 0)

---------------------------------------------------------------------------
\* the lines after the first whose label begins with "cpu"
C9_CoreLines(ls) ==
    SelectSeq(Tail(ls), LAMBDA l : StartsWith(LabelOf(l), <<"c", "p", "u">>))

(* C9 (as claimed): in the counter report the aggregate sequence is the    *)
(* numbers of line 0, and the per-core list has exactly one entry, in      *)
(* document order, for each line at index > 0 whose label begins with      *)
(* "cpu", that entry being the line's numbers; line 0 adds no entry and a  *)
(* line whose label does not begin with "cpu" adds none.                   *)
C9_CpuAndCores ==
    (op = "stat" /\ pc = "returned" /\ ret.kind = "Ok" /\ Len(lines) > 0) =>
        /\ ret.value.cpu = to_vecu64(lines[1]).v
        /\ ret.value.cpus =
             [k \in 1..Len(C9_CoreLines(lines)) |-> to_vecu64(C9_CoreLines(lines)[k]).v]

---------------------------------------------------------------------------
\* the label of the line each of the four fields belongs to
C10_OwnLabel ==
    [ active_anon   |-> (* Active(anon) *) <<"A", "c", "t", "i", "v", "e", "(", "a", "n", "o", "n", ")">>,
      inactive_anon |-> (* Inactive(anon) *)
        <<"I", "n", "a", "c", "t", "i", "v", "e", "(", "a", "n", "o", "n", ")">>,
      active_file   |-> (* Active(file) *) <<"A", "c", "t", "i", "v", "e", "(", "f", "i", "l", "e", ")">>,
      inactive_file |-> (* Inactive(file) *)
        <<"I", "n", "a", "c", "t", "i", "v", "e", "(", "f", "i", "l", "e", ")">> ]

(* C10: in the memory report the more specific label is never shadowed by  *)
(* the more general one: at every point of the decoding active_anon,       *)
(* inactive_anon, active_file and inactive_file hold the number of the     *)
(* last line read so far whose label is "Active(anon)", "Inactive(anon)",  *)
(* "Active(file)", "Inactive(file)" (0 if there is none), whatever the     *)
(* order of the lines; an "Active:" or "Inactive:" line changes none of    *)
(* the four.                                                               *)
C10_SpecificNotShadowed ==
    (op = "meminfo" /\ pc \in {"meminfo_loop", "returned", "panicked"}
       /\ ~(pc = "returned" /\ ret.kind = "Err")) =>
        \A f \in DOMAIN C10_OwnLabel :
            LET read == SubSeq(lines, 1, line_num)
                own(l) == LabelOf(l) = C10_OwnLabel[f]
                i == LastWhere(read, own)
            IN  meminfo[f] = IF i = 0 THEN 0 ELSE to_u64(read[i]).v

\* meminfo() has returned from a text in which an "Active:" line follows an
\* "Active(anon):" line, and active_anon holds the number of its own line
C10_Witness ==
    /\ op = "meminfo" /\ pc = "returned" /\ ret.kind = "Ok"
    /\ \E i \in 1..Len(lines), j \in 1..Len(lines) :
         /\ i < j
         /\ LabelOf(lines[i]) = (* Active(anon) *) <<"A", "c", "t", "i", "v", "e", "(", "a", "n", "o", "n", ")">>
         /\ LabelOf(lines[j]) = (* Active *) <<"A", "c", "t", "i", "v", "e">>
         /\ ret.value.active_anon = to_u64(lines[i]).v
         /\ ret.value.active_anon # to_u64(lines[j]).v

---------------------------------------------------------------------------
(* C11: when several lines of a memory report pass the same field's label  *)
(* test, the last of them in document order determines the field: at       *)
(* every point of the decoding each field holds the number of the last     *)
(* line read so far that contains the field's label (0 if there is none).  *)
(* A report listing "Active:", "Inactive:", "Active(anon):",               *)
(* "Inactive(anon):", "Active(file):", "Inactive(file):" in that order     *)
(* (the sample of meminfo()'s comment) therefore returns active equal to   *)
(* the Active(file) number and inactive equal to the Inactive(file)        *)
(* number, as the fixtures of tests/meminfo.rs expect.                     *)
C11_LastMatchDetermines ==
    (op = "meminfo" /\ pc \in {"meminfo_loop", "returned", "panicked"}
       /\ ~(pc = "returned" /\ ret.kind = "Err")) =>
        /\ \A f \in MemFields :
             LET read == SubSeq(lines, 1, line_num)
                 test(l) == Contains(l, MemLabel[f])
                 i == LastWhere(read, test)
             IN  meminfo[f] = IF i = 0 THEN 0 ELSE to_u64(read[i]).v
        /\ (pc = "returned" /\ lines = MemExample) =>
             /\ ret.value.active = 134352
             /\ ret.value.inactive = 266336
             /\ ret.value.active = ret.value.active_file
             /\ ret.value.inactive = ret.value.inactive_file

\* meminfo() has returned from the sample, whose "Active:" and "Inactive:"
\* lines come first and carry other numbers than the "(file)" lines
C11_Witness ==
    /\ op = "meminfo" /\ pc = "returned" /\ ret.kind = "Ok"
    /\ lines = MemExample
    /\ LabelOf(lines[4]) = (* Active *) <<"A", "c", "t", "i", "v", "e">> /\ to_u64(lines[4]).v = 1229080
    /\ LabelOf(lines[8]) = (* Active(file) *) <<"A", "c", "t", "i", "v", "e", "(", "f", "i", "l", "e", ")">> /\ to_u64(lines[8]).v = 134352
    /\ ret.value.active = 134352
    /\ ret.value.inactive = 266336

---------------------------------------------------------------------------
(* C12: when acquiring the socket table text fails, whether opening the    *)
(* source fails or reading its content fails after a successful open,      *)
(* tcp() and udp() return that failure to the caller unchanged and return  *)
(* no socket records: the call has returned Err with that failure, a call  *)
(* that has finished after such a failure has returned Err with that       *)
(* failure and no records; it has neither returned Ok nor panicked on the  *)
(* empty or partial text.                                                  *)
C12_AcquisitionFailureReturned ==
    (IsNet /\ Finished /\ io \in {"open_err", "read_err"}) =>
        /\ pc = "returned"
        /\ ret = RetErr(io)
        /\ sockets = <<>>

===========================================================================
